---- MODULE Spec2Model ----
(***************************************************************************)
(* A model of ndh5.hpp, the header-only C++ wrapper around the HDF5 C      *)
(* library: the move-only Link handle owned by File, Group and Dataset,    *)
(* the Location operations (open / require of groups and data sets,        *)
(* write, read), the Dataset read / write protocol with its data type      *)
(* check, and the translation of a selector into a hyperslab selection.    *)
(*                                                                         *)
(* The HDF5 library is the wrapper's external collaborator.  Its state     *)
(* (one file on disk, the table of native ids) is the variable h5 and each *)
(* native call the wrapper makes is an operator H5xxx on that state, which *)
(* answers as the library documents: a negative value on failure.          *)
(***************************************************************************)
EXTENDS Integers, Sequences, FiniteSets, TLC

VARIABLES h5, w, last

vars == <<h5, w, last>>

(***************************************************************************)
(* Bounds of the model.                                                    *)
(***************************************************************************)
\* native ids handed out in one run (H5Fopen, H5Gcreate, H5Dopen, ...)
MaxIds == 3
\* longest std::vector and std::string value
MaxLen == 2
\* the length of the data sets that selectors are applied to
SelLen == 3
\* element values are 1..MaxVal; 0 is the fill value of a fresh data set
MaxVal == 2
\* the native close calls counted per id (the count saturates here)
MaxCloses == 2

Names == {"a"}

\* Link::id of a wrapper that owns nothing
InvalidId == -1

Min(a, b) == IF a < b THEN a ELSE b

RECURSIVE Product(_)
Product(s) == IF s = <<>> THEN 1 ELSE Head(s) * Product(Tail(s))

RECURSIVE SeqsUpTo(_, _)
SeqsUpTo(S, n) ==
    IF n = 0 THEN {<<>>}
    ELSE LET shorter == SeqsUpTo(S, n - 1)
         IN  shorter \cup {Append(s, x) : s \in {t \in shorter : Len(t) = n - 1}, x \in S}

Zeros(n) == [i \in 1..n |-> 0]

(***************************************************************************)
(* Data types: the native type descriptors the wrapper builds.             *)
(***************************************************************************)
NoType == [cls |-> "none", size |-> 0]
H5T_NATIVE_INT == [cls |-> "int", size |-> 4]
H5T_NATIVE_DOUBLE == [cls |-> "double", size |-> 8]
H5T_C_S1 == [cls |-> "string", size |-> 1]

\* H5Tset_size: the library refuses a size that is not positive
H5Tset_size(type, size) ==
    IF size > 0 /\ type.cls = "string"
    THEN [ret |-> 0, type |-> [type EXCEPT !.size = size]]
    ELSE [ret |-> -1, type |-> type]

\* H5Tequal: structural equality, > 0 when equal, negative for a bad id
H5Tequal(a, b) ==
    IF a.cls = "none" \/ b.cls = "none" THEN -1
    ELSE IF a = b THEN 1 ELSE 0

H5Tget_size(type) == IF type.cls = "none" THEN 0 ELSE type.size

\* Datatype::with_size: a copy with the size set, H5Tset_size unchecked
with_size(type, size) == H5Tset_size(type, size).type

\* whether Datatype::with_size's native call failed
with_size_failed(type, size) == H5Tset_size(type, size).ret < 0


(***************************************************************************)
(* Data spaces: extent (kind, dims) and the active selection.              *)
(***************************************************************************)
SelAll == [mode |-> "all", start |-> <<>>, stride |-> <<>>, count |-> <<>>, block |-> <<>>]
SelNone == [SelAll EXCEPT !.mode = "none"]

NoSpace == [kind |-> "none", dims |-> <<>>, sel |-> SelNone]
\* H5Screate(H5S_NULL), H5Screate(H5S_SCALAR), H5Screate_simple(rank, dims, NULL)
H5S_NULL == [kind |-> "null", dims |-> <<>>, sel |-> SelAll]
H5S_SCALAR == [kind |-> "scalar", dims |-> <<>>, sel |-> SelAll]
H5Screate_simple(dims) == [kind |-> "simple", dims |-> dims, sel |-> SelAll]

\* H5Sget_simple_extent_ndims, H5Sget_simple_extent_npoints
H5Sget_simple_extent_ndims(space) == Len(space.dims)
H5Sget_simple_extent_npoints(space) ==
    CASE space.kind = "simple" -> Product(space.dims)
      [] space.kind = "scalar" -> 1
      [] OTHER -> 0

\* H5Sextent_equal: same kind of extent and the same dims, whatever is selected
H5Sextent_equal(a, b) ==
    IF a.kind = "none" \/ b.kind = "none" THEN -1
    ELSE IF a.kind = b.kind /\ a.dims = b.dims THEN 1 ELSE 0

\* the positions a hyperslab selects on axis k, in increasing order
AxisPositions(sel, k) ==
    [n \in 1..(sel.count[k] * sel.block[k]) |->
        sel.start[k] + ((n - 1) \div sel.block[k]) * sel.stride[k] + ((n - 1) % sel.block[k])]

\* the coordinates a hyperslab selects on the axes k.., in row-major order
RECURSIVE SlabCoords(_, _)
SlabCoords(sel, k) ==
    IF k > Len(sel.start) THEN << <<>> >>
    ELSE LET rest == SlabCoords(sel, k + 1)
             own  == AxisPositions(sel, k)
         IN  [n \in 1..(Len(own) * Len(rest)) |->
                <<own[((n - 1) \div Len(rest)) + 1]>> \o rest[((n - 1) % Len(rest)) + 1]]

\* the row-major linear offset (from 0) of a coordinate in an extent
RECURSIVE Linear(_, _, _)
Linear(coord, dims, acc) ==
    IF coord = <<>> THEN acc
    ELSE Linear(Tail(coord), Tail(dims), acc * Head(dims) + Head(coord))

\* H5Sget_select_npoints
H5Sget_select_npoints(space) ==
    CASE space.sel.mode = "all" -> H5Sget_simple_extent_npoints(space)
      [] space.sel.mode = "none" -> 0
      [] OTHER -> Product([k \in 1..Len(space.sel.count) |-> space.sel.count[k] * space.sel.block[k]])

\* H5Sselect_valid: the selection lies inside the extent
H5Sselect_valid(space) ==
    \/ space.sel.mode \in {"all", "none"}
    \/ /\ space.sel.mode = "hyper"
       /\ \A k \in 1..Len(space.dims) :
            \A n \in 1..(space.sel.count[k] * space.sel.block[k]) :
                AxisPositions(space.sel, k)[n] < space.dims[k]

\* the linear offsets (from 0) of the selected elements, in selection order
SelectedOffsets(space) ==
    CASE space.sel.mode = "all" -> [n \in 1..H5Sget_simple_extent_npoints(space) |-> n - 1]
      [] space.sel.mode = "none" -> <<>>
      [] OTHER -> LET cs == SlabCoords(space.sel, 1)
                  IN  [n \in 1..Len(cs) |-> Linear(cs[n], space.dims, 0)]

\* H5Sselect_hyperslab(space, H5S_SELECT_SET, start, stride, count, block):
\* refused on a space that is not simple, for a zero stride and for
\* overlapping blocks; the selection is not compared with the extent here
H5Sselect_hyperslab(space, start, stride, count, block) ==
    IF /\ space.kind = "simple"
       /\ \A k \in 1..Len(space.dims) :
            stride[k] > 0 /\ (count[k] > 1 => stride[k] >= block[k])
    THEN [ret |-> 0,
          space |-> [space EXCEPT !.sel = [mode |-> "hyper", start |-> start,
                        stride |-> stride, count |-> count, block |-> block]]]
    ELSE [ret |-> -1, space |-> space]

(***************************************************************************)
(* h5::detail::hyperslab and the Dataspace built from an nd::selector.     *)
(* A selector is [start, skips, shape, count]: shape is what sel.shape()   *)
(* returns and count is the extent the selector slices.                    *)
(***************************************************************************)
Selector(start, skips, shape, count) ==
    [start |-> start, skips |-> skips, shape |-> shape, count |-> count]

hyperslab_swapped(sel) ==
    [start |-> sel.start, skips |-> sel.shape, count |-> sel.skips,
     block |-> [k \in 1..Len(sel.start) |-> 1]]

hyperslab(sel) ==
    [start |-> sel.start, skips |-> sel.skips, count |-> sel.shape,
     block |-> [k \in 1..Len(sel.start) |-> 1]]

\* hyperslab::check_valid: TRUE when it does not throw
check_valid(slab, rank) ==
    /\ Len(slab.start) = rank
    /\ Len(slab.skips) = rank
    /\ Len(slab.count) = rank
    /\ Len(slab.block) = rank

\* Dataspace(nd::selector): [ok, err, nfail, space]
DataspaceFromSelector(sel) ==
    LET dims == sel.count
        slab == hyperslab(sel)
        id   == H5Screate_simple(dims)
    IN  IF ~check_valid(slab, H5Sget_simple_extent_ndims(id))
        THEN [ok |-> FALSE, err |-> "inconsistent selection sizes", nfail |-> FALSE, space |-> NoSpace]
        ELSE LET r == H5Sselect_hyperslab(id, slab.start, slab.skips, slab.count, slab.block)
             IN  IF r.ret < 0
                 THEN [ok |-> FALSE, err |-> "native", nfail |-> TRUE, space |-> NoSpace]
                 ELSE [ok |-> TRUE, err |-> "", nfail |-> FALSE, space |-> r.space]

\* nd::with_count(sel, extent.begin(), extent.end()): the selector over the
\* given extent; a selector of another rank than the extent is refused
with_count(sel, extent) ==
    IF Len(extent) # Len(sel.start)
    THEN [ok |-> FALSE, sel |-> sel]
    ELSE [ok |-> TRUE, sel |-> [sel EXCEPT !.count = extent]]

(***************************************************************************)
(* In-memory values: [ty, elems].  A scalar holds one element; a string's  *)
(* elements are its bytes.                                                 *)
(***************************************************************************)
Value(ty, elems) == [ty |-> ty, elems |-> elems]
NoValue == Value("none", <<>>)

IsVector(ty) == ty \in {"vint", "vdouble"}

make_datatype_for(val) ==
    CASE val.ty = "string" -> with_size(H5T_C_S1, Len(val.elems))
      [] val.ty \in {"int", "vint"} -> H5T_NATIVE_INT
      [] val.ty \in {"double", "vdouble"} -> H5T_NATIVE_DOUBLE
      [] OTHER -> NoType

\* whether a native call made while building the type failed (unchecked)
make_datatype_failed(val) ==
    val.ty = "string" /\ with_size_failed(H5T_C_S1, Len(val.elems))

make_dataspace_for(val) ==
    IF IsVector(val.ty) THEN H5Screate_simple(<<Len(val.elems)>>) ELSE H5S_SCALAR

\* T value; detail::prepare(type, space, value): the value the read fills
prepare(type, space, ty) ==
    CASE ty = "string" -> Value(ty, Zeros(H5Tget_size(type)))
      [] IsVector(ty) -> Value(ty, Zeros(H5Sget_select_npoints(space)))
      [] OTHER -> Value(ty, Zeros(1))

\* the bytes or elements at get_address(value) that a transfer of `type` reads
BufferOf(val, type) ==
    IF val.ty = "string"
    THEN SubSeq(val.elems \o Zeros(type.size), 1, type.size)
    ELSE val.elems


(***************************************************************************)
(* The state of the HDF5 library: one file on disk (exists, tree), the     *)
(* access flags it is open with, and the table of native ids.  Ids are     *)
(* handed out in increasing order and never reused.                        *)
(***************************************************************************)
\* how deep below the file's root the model follows names
MaxDepth == 2

Paths == SeqsUpTo(Names, MaxDepth)

NoObj == [kind |-> "none", type |-> NoType, space |-> NoSpace, data |-> <<>>]
GroupObj == [NoObj EXCEPT !.kind = "group"]

\* the units of data one element of a type takes: a string's bytes, else 1
Unit(type) == IF type.cls = "string" THEN type.size ELSE 1

\* a fresh data set holds the fill value
DatasetObj(type, space) ==
    [kind |-> "dataset", type |-> type, space |-> [space EXCEPT !.sel = SelAll],
     data |-> Zeros(H5Sget_simple_extent_npoints(space) * Unit(type))]

EmptyTree == [p \in Paths |-> IF p = <<>> THEN GroupObj ELSE NoObj]

NoFile == [exists |-> FALSE, flags |-> "closed", tree |-> [p \in Paths |-> NoObj], ids |-> <<>>]

IdRec(kind, path) == [kind |-> kind, path |-> path, open |-> TRUE, closes |-> 0]

\* id names an open object of one of the kinds
Valid(H, id, kinds) ==
    id \in 1..Len(H.ids) /\ H.ids[id].open /\ H.ids[id].kind \in kinds

AnyOpen(ids) == \E i \in 1..Len(ids) : ids[i].open

IsLocation(H, id) == Valid(H, id, {"file", "group"})

Exists(H, p) == p \in Paths /\ H.tree[p].kind # "none"

ChildPath(H, id, name) == Append(H.ids[id].path, name)

Children(H, p) == {n \in Names : Exists(H, Append(p, n))}

Alloc(H, kind, path) ==
    [ret |-> Len(H.ids) + 1, H |-> [H EXCEPT !.ids = Append(@, IdRec(kind, path))]]

Fail(H) == [ret |-> -1, H |-> H]

\* H5Fcreate(filename, H5F_ACC_TRUNC, ...): refused while the file is open
H5Fcreate(H) ==
    IF AnyOpen(H.ids) THEN Fail(H)
    ELSE Alloc([H EXCEPT !.exists = TRUE, !.flags = "rdwr", !.tree = EmptyTree], "file", <<>>)

\* H5Fopen(filename, flags, ...): the file must exist; a file that is open
\* keeps the flags of its first open and cannot be reopened for writing
\* when those are read-only
H5Fopen(H, flags) ==
    IF ~H.exists THEN Fail(H)
    ELSE IF AnyOpen(H.ids)
         THEN IF flags = "rdwr" /\ H.flags = "rdonly" THEN Fail(H) ELSE Alloc(H, "file", <<>>)
         ELSE Alloc([H EXCEPT !.flags = flags], "file", <<>>)

\* H5Fclose, H5Gclose, H5Dclose: releases an open id of that kind; the file
\* itself is closed with its last id.  A call on an id that was released
\* before is counted for that id.
H5Xclose(H, id, kind) ==
    IF Valid(H, id, {kind})
    THEN LET ids == [H.ids EXCEPT ![id].open = FALSE, ![id].closes = Min(@ + 1, MaxCloses)]
         IN  [ret |-> 0,
              H |-> [H EXCEPT !.ids = ids, !.flags = IF AnyOpen(ids) THEN @ ELSE "closed"]]
    ELSE IF id \in 1..Len(H.ids)
         THEN [ret |-> -1, H |-> [H EXCEPT !.ids[id].closes = Min(@ + 1, MaxCloses)]]
         ELSE Fail(H)

\* H5Fget_intent: the flags the file is open with
H5Fget_intent(H, id) ==
    IF Valid(H, id, {"file"}) THEN [ret |-> 0, intent |-> H.flags]
    ELSE [ret |-> -1, intent |-> "garbage"]

\* H5Literate with a callback returning 0: idx ends at the number of links
H5Literate(H, id) ==
    IF IsLocation(H, id)
    THEN [ret |-> 0, idx |-> Cardinality(Children(H, H.ids[id].path))]
    ELSE [ret |-> -1, idx |-> 0]

\* H5Lexists: 1, 0, or negative for a bad location
H5Lexists(H, id, name) ==
    IF ~IsLocation(H, id) THEN -1
    ELSE IF Exists(H, ChildPath(H, id, name)) THEN 1 ELSE 0

\* H5Oget_info_by_name: info.type, left unset when the call fails
H5Oget_info_by_name(H, id, name) ==
    IF IsLocation(H, id) /\ Exists(H, ChildPath(H, id, name))
    THEN [ret |-> 0, type |-> H.tree[ChildPath(H, id, name)].kind]
    ELSE [ret |-> -1, type |-> "unset"]

H5Gopen(H, id, name) ==
    IF IsLocation(H, id) /\ Exists(H, ChildPath(H, id, name))
       /\ H.tree[ChildPath(H, id, name)].kind = "group"
    THEN Alloc(H, "group", ChildPath(H, id, name))
    ELSE Fail(H)

\* H5Gcreate: needs write access and a free name
H5Gcreate(H, id, name) ==
    IF IsLocation(H, id) /\ H.flags = "rdwr"
       /\ ChildPath(H, id, name) \in Paths /\ ~Exists(H, ChildPath(H, id, name))
    THEN Alloc([H EXCEPT !.tree[ChildPath(H, id, name)] = GroupObj], "group", ChildPath(H, id, name))
    ELSE Fail(H)

H5Dopen(H, id, name) ==
    IF IsLocation(H, id) /\ Exists(H, ChildPath(H, id, name))
       /\ H.tree[ChildPath(H, id, name)].kind = "dataset"
    THEN Alloc(H, "dataset", ChildPath(H, id, name))
    ELSE Fail(H)

\* H5Dcreate: needs write access, a free name, a type and a space
H5Dcreate(H, id, name, type, space) ==
    IF IsLocation(H, id) /\ H.flags = "rdwr"
       /\ ChildPath(H, id, name) \in Paths /\ ~Exists(H, ChildPath(H, id, name))
       /\ type.cls # "none" /\ space.kind # "none"
    THEN Alloc([H EXCEPT !.tree[ChildPath(H, id, name)] = DatasetObj(type, space)],
               "dataset", ChildPath(H, id, name))
    ELSE Fail(H)

DatasetOf(H, id) == H.tree[H.ids[id].path]

H5Dget_type(H, id) ==
    IF Valid(H, id, {"dataset"}) THEN [ret |-> 0, type |-> DatasetOf(H, id).type]
    ELSE [ret |-> -1, type |-> NoType]

H5Dget_space(H, id) ==
    IF Valid(H, id, {"dataset"}) THEN [ret |-> 0, space |-> DatasetOf(H, id).space]
    ELSE [ret |-> -1, space |-> NoSpace]

\* the library converts between the number types and between string sizes
Convertible(a, b) ==
    \/ a.cls \in {"int", "double"} /\ b.cls \in {"int", "double"}
    \/ a.cls = "string" /\ b.cls = "string"

\* element n (from 0) of flat data in units of `from`, converted to units of `to`
Element(data, n, from, to) ==
    [j \in 1..to |-> IF j <= from THEN data[n * from + j] ELSE 0]

\* what H5Dread and H5Dwrite check before they move data: ids, types, equal
\* numbers of selected elements, selections inside their extents.  Every
\* file space the wrapper passes has the data set's own extent.
TransferOk(H, id, memtype, mspace, fspace) ==
    /\ Valid(H, id, {"dataset"})
    /\ memtype.cls # "none" /\ mspace.kind # "none" /\ fspace.kind # "none"
    /\ Convertible(memtype, DatasetOf(H, id).type)
    /\ H5Sextent_equal(fspace, DatasetOf(H, id).space) = 1
    /\ H5Sget_select_npoints(mspace) = H5Sget_select_npoints(fspace)
    /\ H5Sselect_valid(mspace) /\ H5Sselect_valid(fspace)

\* H5Dwrite(id, memtype, mspace, fspace, H5P_DEFAULT, buf)
H5Dwrite(H, id, memtype, mspace, fspace, buf) ==
    IF ~(TransferOk(H, id, memtype, mspace, fspace) /\ H.flags = "rdwr") THEN Fail(H)
    ELSE LET obj  == DatasetOf(H, id)
             fu   == Unit(obj.type)
             mu   == Unit(memtype)
             foff == SelectedOffsets(fspace)
             moff == SelectedOffsets(mspace)
             Src(e) == CHOOSE n \in 1..Len(foff) : foff[n] = e
             data == [j \in 1..Len(obj.data) |->
                        LET e == (j - 1) \div fu
                        IN  IF \E n \in 1..Len(foff) : foff[n] = e
                            THEN Element(buf, moff[Src(e)], mu, fu)[((j - 1) % fu) + 1]
                            ELSE obj.data[j]]
         IN  [ret |-> 0, H |-> [H EXCEPT !.tree[H.ids[id].path].data = data]]

\* H5Dread(id, memtype, mspace, fspace, H5P_DEFAULT, buf): [ret, buf]
H5Dread(H, id, memtype, mspace, fspace, buf) ==
    IF ~TransferOk(H, id, memtype, mspace, fspace) THEN [ret |-> -1, buf |-> buf]
    ELSE LET obj  == DatasetOf(H, id)
             fu   == Unit(obj.type)
             mu   == Unit(memtype)
             foff == SelectedOffsets(fspace)
             moff == SelectedOffsets(mspace)
             Src(e) == CHOOSE n \in 1..Len(moff) : moff[n] = e
         IN  [ret |-> 0,
              buf |-> [j \in 1..Len(buf) |->
                        LET e == (j - 1) \div mu
                        IN  IF \E n \in 1..Len(moff) : moff[n] = e
                            THEN Element(obj.data, foff[Src(e)], fu, mu)[((j - 1) % mu) + 1]
                            ELSE buf[j]]]


(***************************************************************************)
(* The wrapper's operations as functions of the library state.  An outcome *)
(* is [H, ok, err, ret, val, calls, nfail]: the library state afterwards,  *)
(* whether the operation returned normally or threw (err is the message,   *)
(* "native" for the library's own diagnostic), the native id or number it  *)
(* returned, the value it read, the native calls it issued and whether one *)
(* of them returned its failure value.                                     *)
(***************************************************************************)
Res(H, ok, err, ret, val, calls, nfail) ==
    [H |-> H, ok |-> ok, err |-> err, ret |-> ret, val |-> val, calls |-> calls, nfail |-> nfail]

\* an outcome that also accounts for the calls made before it
After(r, calls, nfail) == [r EXCEPT !.calls = @ \cup calls, !.nfail = @ \/ nfail]

\* a check that lets a failure value through
check_passes(r, call) == Res(r.H, TRUE, "", r.ret, NoValue, {call}, r.ret < 0)

\* detail::check on the result of a native call that returns [ret, H]
check(r, call) ==
    IF r.ret < 0
    THEN Res(r.H, FALSE, "native", InvalidId, NoValue, {call}, TRUE)
    ELSE Res(r.H, TRUE, "", r.ret, NoValue, {call}, FALSE)

CloseCall(object) ==
    CASE object = "file" -> "H5Fclose"
      [] object = "group" -> "H5Gclose"
      [] OTHER -> "H5Dclose"

\* a close that leaves the id in the wrapper
Link_close_keeps_id(H, id, object) ==
    IF id # InvalidId
    THEN LET r == H5Xclose(H, id, object)
         IN  [H |-> r.H, id |-> id, calls |-> {CloseCall(object)}, nfail |-> r.ret < 0]
    ELSE [H |-> H, id |-> id, calls |-> {}, nfail |-> FALSE]

\* Link::close(object): [H, id, calls, nfail], id the wrapper's id afterwards
Link_close(H, id, object) ==
    IF id # InvalidId
    THEN LET r == H5Xclose(H, id, object)
         IN  [H |-> r.H, id |-> InvalidId, calls |-> {CloseCall(object)}, nfail |-> r.ret < 0]
    ELSE [H |-> H, id |-> id, calls |-> {}, nfail |-> FALSE]

\* Link::size: H5Literate's result is not looked at
Link_size(H, id) ==
    LET r == H5Literate(H, id)
    IN  Res(H, TRUE, "", r.idx, NoValue, {"H5Literate"}, r.ret < 0)

\* Link::contains: [ret, calls, nfail].  A negative H5Lexists counts as
\* true, and info.type is then read without having been set: garbage is
\* what the comparison yields.
Link_contains(H, id, name, object, garbage) ==
    IF H5Lexists(H, id, name) # 0
    THEN LET info == H5Oget_info_by_name(H, id, name)
         IN  [ret |-> IF object = "file" THEN FALSE
                      ELSE IF info.ret < 0 THEN garbage ELSE info.type = object,
              calls |-> {"H5Lexists", "H5Oget_info_by_name"},
              nfail |-> H5Lexists(H, id, name) < 0 \/ info.ret < 0]
    ELSE [ret |-> FALSE, calls |-> {"H5Lexists"}, nfail |-> FALSE]

\* an open_group that does not look at what H5Gopen returned
Link_open_group_unchecked(H, id, name) ==
    LET r == H5Gopen(H, id, name)
    IN  Res(r.H, TRUE, "", r.ret, NoValue, {"H5Gopen"}, r.ret < 0)

Link_open_group(H, id, name) == check(H5Gopen(H, id, name), "H5Gopen")
Link_create_group(H, id, name) == check(H5Gcreate(H, id, name), "H5Gcreate")
Link_open_dataset(H, id, name) == check(H5Dopen(H, id, name), "H5Dopen")
Link_create_dataset(H, id, name, type, space) ==
    check(H5Dcreate(H, id, name, type, space), "H5Dcreate")

\* a require_group that always creates
require_group_always_creates(H, id, name, garbage) == Link_create_group(H, id, name)

\* Location::require_group
require_group(H, id, name, garbage) ==
    LET c == Link_contains(H, id, name, "group", garbage)
    IN  IF c.ret
        THEN After(Link_open_group(H, id, name), c.calls, c.nfail)
        ELSE After(Link_create_group(H, id, name), c.calls, c.nfail)

\* the outcome of throwing err once the local Dataset dset has been destroyed
ThrowClosing(H, dset, err, calls, nfail) ==
    LET c == Link_close(H, dset, "dataset")
    IN  Res(c.H, FALSE, err, InvalidId, NoValue, calls \cup c.calls, nfail \/ c.nfail)

\* a require_dataset that replaces a data set of another type or space by a
\* fresh one of the type and space asked for
require_dataset_replaces(H, id, name, type, space, garbage) ==
    LET c == Link_contains(H, id, name, "dataset", garbage)
        o == After(Link_open_dataset(H, id, name), c.calls, c.nfail)
    IN  IF ~c.ret
        THEN After(Link_create_dataset(H, id, name, type, space), c.calls, c.nfail)
        ELSE IF ~o.ok THEN o
        ELSE [o EXCEPT !.H.tree[ChildPath(H, id, name)] = DatasetObj(type, space)]

\* a require_dataset that returns whatever data set has the name
require_dataset_unchecked(H, id, name, type, space, garbage) ==
    LET c == Link_contains(H, id, name, "dataset", garbage)
    IN  IF c.ret
        THEN After(Link_open_dataset(H, id, name), c.calls, c.nfail)
        ELSE After(Link_create_dataset(H, id, name, type, space), c.calls, c.nfail)

\* Location::require_dataset(name, type, space)
require_dataset(H, id, name, type, space, garbage) ==
    LET c == Link_contains(H, id, name, "dataset", garbage)
    IN  IF ~c.ret
        THEN After(Link_create_dataset(H, id, name, type, space), c.calls, c.nfail)
        ELSE LET o == After(Link_open_dataset(H, id, name), c.calls, c.nfail)
             IN  IF ~o.ok THEN o
                 ELSE LET gt == H5Dget_type(o.H, o.ret)
                          te == H5Tequal(gt.type, type)
                          gs == H5Dget_space(o.H, o.ret)
                          se == H5Sextent_equal(gs.space, space)
                          tcalls == o.calls \cup {"H5Dget_type", "H5Tequal"}
                          scalls == tcalls \cup {"H5Dget_space", "H5Sextent_equal"}
                      IN  IF gt.ret < 0 \/ te < 0
                          THEN ThrowClosing(o.H, o.ret, "native", tcalls, TRUE)
                          ELSE IF te = 0
                          THEN ThrowClosing(o.H, o.ret,
                                   "data set with different type or space already exists",
                                   tcalls, o.nfail)
                          ELSE IF gs.ret < 0 \/ se < 0
                          THEN ThrowClosing(o.H, o.ret, "native", scalls, TRUE)
                          ELSE IF se = 0
                          THEN ThrowClosing(o.H, o.ret,
                                   "data set with different type or space already exists",
                                   scalls, o.nfail)
                          ELSE After(o, scalls, FALSE)

\* a type check that accepts every type
check_compatible_accepts_all(H, dset, type) ==
    Res(H, TRUE, "", 0, NoValue, {"H5Dget_type", "H5Tequal"}, FALSE)

\* Dataset::check_compatible(type): throws unless type == get_type()
check_compatible(H, dset, type) ==
    LET gt == H5Dget_type(H, dset)
        te == H5Tequal(type, gt.type)
    IN  IF gt.ret < 0 THEN Res(H, FALSE, "native", InvalidId, NoValue, {"H5Dget_type"}, TRUE)
        ELSE IF te < 0
        THEN Res(H, FALSE, "native", InvalidId, NoValue, {"H5Dget_type", "H5Tequal"}, TRUE)
        ELSE IF te = 0
        THEN Res(H, FALSE, "source and target have different data types", InvalidId, NoValue,
                 {"H5Dget_type", "H5Tequal"}, FALSE)
        ELSE Res(H, TRUE, "", 0, NoValue, {"H5Dget_type", "H5Tequal"}, FALSE)

\* Dataset::write(value, fspace)
Dataset_write_space(H, dset, value, fspace) ==
    LET type   == make_datatype_for(value)
        tfail  == make_datatype_failed(value)
        mspace == make_dataspace_for(value)
        cc     == check_compatible(H, dset, type)
    IN  IF ~cc.ok THEN After(cc, {}, tfail)
        ELSE After(check(H5Dwrite(H, dset, type, mspace, fspace, BufferOf(value, type)), "H5Dwrite"),
                   cc.calls, tfail)

\* Dataset::write(value): the file space is get_space()
Dataset_write(H, dset, value) ==
    LET gs == H5Dget_space(H, dset)
    IN  IF gs.ret < 0 THEN Res(H, FALSE, "native", InvalidId, NoValue, {"H5Dget_space"}, TRUE)
        ELSE After(Dataset_write_space(H, dset, value, gs.space), {"H5Dget_space"}, FALSE)

\* Dataset::read<T>(fspace); ty names T
Dataset_read_space(H, dset, ty, fspace) ==
    LET gt == H5Dget_type(H, dset)
    IN  IF gt.ret < 0 THEN Res(H, FALSE, "native", InvalidId, NoValue, {"H5Dget_type"}, TRUE)
        ELSE LET value  == prepare(gt.type, fspace, ty)
                 type   == make_datatype_for(value)
                 tfail  == make_datatype_failed(value)
                 mspace == make_dataspace_for(value)
                 cc     == check_compatible(H, dset, type)
                 r      == H5Dread(H, dset, type, mspace, fspace, BufferOf(value, type))
             IN  IF ~cc.ok THEN After(cc, {}, tfail)
                 ELSE IF r.ret < 0
                 THEN Res(H, FALSE, "native", InvalidId, NoValue, cc.calls \cup {"H5Dread"}, TRUE)
                 ELSE Res(H, TRUE, "", 0, Value(ty, r.buf), cc.calls \cup {"H5Dread"}, tfail)

\* Dataset::read<T>()
Dataset_read(H, dset, ty) ==
    LET gs == H5Dget_space(H, dset)
    IN  IF gs.ret < 0 THEN Res(H, FALSE, "native", InvalidId, NoValue, {"H5Dget_space"}, TRUE)
        ELSE After(Dataset_read_space(H, dset, ty, gs.space), {"H5Dget_space"}, FALSE)

\* Dataset::read<T>(sel): the selector over the data set's extent
Dataset_read_selector(H, dset, ty, sel) ==
    LET gs == H5Dget_space(H, dset)
    IN  IF gs.ret < 0 THEN Res(H, FALSE, "native", InvalidId, NoValue, {"H5Dget_space"}, TRUE)
        ELSE LET wc == with_count(sel, gs.space.dims)
                 fs == DataspaceFromSelector(wc.sel)
             IN  IF ~wc.ok
                 THEN Res(H, FALSE, "selector", InvalidId, NoValue, {"H5Dget_space"}, FALSE)
                 ELSE IF ~fs.ok
                 THEN Res(H, FALSE, fs.err, InvalidId, NoValue,
                          {"H5Dget_space", "H5Sselect_hyperslab"}, fs.nfail)
                 ELSE After(Dataset_read_space(H, dset, ty, fs.space),
                            {"H5Dget_space", "H5Sselect_hyperslab"}, FALSE)

\* the outcome r of an operation on the temporary Dataset dset, which is
\* destroyed when the statement ends or unwinds
ClosingTemporary(r, dset, calls, nfail) ==
    LET c == Link_close(r.H, dset, "dataset")
    IN  [After(r, calls \cup c.calls, nfail \/ c.nfail) EXCEPT !.H = c.H, !.ret = InvalidId]

\* Location::write(name, value)
Location_write(H, id, name, value, garbage) ==
    LET type  == make_datatype_for(value)
        tfail == make_datatype_failed(value)
        space == make_dataspace_for(value)
        rd    == require_dataset(H, id, name, type, space, garbage)
    IN  IF ~rd.ok THEN After(rd, {}, tfail)
        ELSE ClosingTemporary(Dataset_write(rd.H, rd.ret, value), rd.ret, rd.calls, rd.nfail \/ tfail)

\* Location::read<T>(name)
Location_read(H, id, name, ty) ==
    LET o == Link_open_dataset(H, id, name)
    IN  IF ~o.ok THEN o
        ELSE ClosingTemporary(Dataset_read(o.H, o.ret, ty), o.ret, o.calls, o.nfail)

\* a constructor whose last branch creates the file instead of throwing
File_open_creates_by_default(H, mode) ==
    CASE mode = "r" -> check(H5Fopen(H, "rdonly"), "H5Fopen")
      [] mode = "r+" -> check(H5Fopen(H, "rdwr"), "H5Fopen")
      [] OTHER -> check(H5Fcreate(H), "H5Fcreate")

\* File::File(filename, mode)
File_open(H, mode) ==
    CASE mode = "r" -> check(H5Fopen(H, "rdonly"), "H5Fopen")
      [] mode = "r+" -> check(H5Fopen(H, "rdwr"), "H5Fopen")
      [] mode = "w" -> check(H5Fcreate(H), "H5Fcreate")
      [] OTHER -> Res(H, FALSE, "File mode must be r, r+, or w", InvalidId, NoValue, {}, FALSE)

\* H5Fis_hdf5(filename): positive for an HDF5 file, negative when there is none
H5Fis_hdf5(H) == IF H.exists THEN 1 ELSE -1

\* File::exists(filename): ret is 1 for true, 0 for false
File_exists(H) ==
    Res(H, TRUE, "", IF H5Fis_hdf5(H) > 0 THEN 1 ELSE 0, NoValue, {"H5Fis_hdf5"}, H5Fis_hdf5(H) < 0)

\* an intent() that answers rdwr for every open file
File_intent_always_rdwr(H, id) ==
    LET r == H5Fget_intent(H, id)
    IN  IF r.ret < 0 THEN Res(H, FALSE, "native", InvalidId, NoValue, {"H5Fget_intent"}, TRUE)
        ELSE Res(H, TRUE, "", 0, Value("rdwr", <<>>), {"H5Fget_intent"}, FALSE)

\* File::intent: val.ty is the Intent returned; the bare throw with no
\* exception being handled ends the program ("terminate")
File_intent(H, id) ==
    LET r == H5Fget_intent(H, id)
    IN  IF r.ret < 0 THEN Res(H, FALSE, "native", InvalidId, NoValue, {"H5Fget_intent"}, TRUE)
        ELSE IF r.intent \in {"rdwr", "rdonly"}
        THEN Res(H, TRUE, "", 0, Value(r.intent, <<>>), {"H5Fget_intent"}, FALSE)
        ELSE Res(H, FALSE, "terminate", InvalidId, NoValue, {"H5Fget_intent"}, FALSE)


(***************************************************************************)
(* The program: wrapper objects (File, Group, Dataset variables of the     *)
(* caller) and the operations applied to them.  w[s] is [live, id]: live   *)
(* between construction and destruction, id the Link's native id.  last    *)
(* records the operation just applied, its arguments and its outcome.      *)
(***************************************************************************)
FileSlots == {"f1", "f2"}
GroupSlots == {"g1"}
DsetSlots == {"d1"}
LocationSlots == FileSlots \cup GroupSlots
Slots == LocationSlots \cup DsetSlots

\* the Object a wrapper passes to Link::close
ObjectOf(s) ==
    CASE s \in FileSlots -> "file"
      [] s \in GroupSlots -> "group"
      [] OTHER -> "dataset"

SameClass(a, b) == ObjectOf(a) = ObjectOf(b)

Dead == [live |-> FALSE, id |-> InvalidId]
Wrapper(id) == [live |-> TRUE, id |-> id]

\* Location::is_open
is_open(W, s) == W[s].id # InvalidId

NoSelector == Selector(<<>>, <<>>, <<>>, <<>>)

Last(op, slot, name, dst, arg, type, space, sel, pre, r) ==
    [op |-> op, slot |-> slot, name |-> name, dst |-> dst, arg |-> arg, type |-> type,
     space |-> space, sel |-> sel, pre |-> pre, ok |-> r.ok, err |-> r.err, ret |-> r.ret,
     val |-> r.val, calls |-> r.calls, nfail |-> r.nfail]

Init ==
    /\ h5 = NoFile
    /\ w = [s \in Slots |-> Dead]
    /\ last = Last("init", "none", "", "none", NoValue, NoType, NoSpace, NoSelector, InvalidId,
                   Res(NoFile, TRUE, "", 0, NoValue, {}, FALSE))

\* room in the id table for the id an operation may need
CanAllocate == Len(h5.ids) < MaxIds

\* the names below a location are followed to MaxDepth
DepthOk(s) == IsLocation(h5, w[s].id) => Len(h5.ids[w[s].id].path) < MaxDepth

\* a move that copies the id and leaves the source as it was
MoveLink_keeps_source(W, dst, src) == [W EXCEPT ![dst] = Wrapper(W[src].id)]

\* Link(Link&&) and Link::operator=(Link&&): id = other.id; other.id = -1
MoveLink(W, dst, src) == [[W EXCEPT ![dst] = Wrapper(W[src].id)] EXCEPT ![src].id = InvalidId]

\* the returned Link becomes the wrapper dst, or a temporary that is
\* destroyed at the end of the statement: [H, W, calls, nfail]
Deliver(r, dst, object) ==
    IF ~r.ok THEN [H |-> r.H, W |-> w, calls |-> {}, nfail |-> FALSE]
    ELSE IF dst = "temp"
    THEN LET c == Link_close(r.H, r.ret, object)
         IN  [H |-> c.H, W |-> w, calls |-> c.calls, nfail |-> c.nfail]
    ELSE [H |-> r.H, W |-> [w EXCEPT ![dst] = Wrapper(r.ret)], calls |-> {}, nfail |-> FALSE]

Targets(slots) == {s \in slots : ~w[s].live} \cup {"temp"}

\* File(filename, mode)
FileOpen(s, mode) ==
    /\ ~w[s].live /\ CanAllocate
    /\ LET r == File_open(h5, mode)
       IN  /\ h5' = r.H
           /\ w' = IF r.ok THEN [w EXCEPT ![s] = Wrapper(r.ret)] ELSE w
           /\ last' = Last("File", s, mode, s, NoValue, NoType, NoSpace, NoSelector, InvalidId, r)

\* File::exists(filename), a static function
FileExists ==
    /\ last' = Last("exists", "none", "", "none", NoValue, NoType, NoSpace, NoSelector, InvalidId,
                    File_exists(h5))
    /\ UNCHANGED <<h5, w>>

\* File(), Group(), Dataset()
DefaultConstruct(s) ==
    /\ ~w[s].live
    /\ w' = [w EXCEPT ![s] = Wrapper(InvalidId)]
    /\ last' = Last("default", s, "", s, NoValue, NoType, NoSpace, NoSelector, InvalidId,
                    Res(h5, TRUE, "", 0, NoValue, {}, FALSE))
    /\ UNCHANGED h5

\* File(File&&), Group(Group&&), Dataset(Dataset&&)
MoveConstruct(dst, src) ==
    /\ ~w[dst].live /\ w[src].live /\ SameClass(dst, src)
    /\ w' = MoveLink(w, dst, src)
    /\ last' = Last("move", src, "", dst, NoValue, NoType, NoSpace, NoSelector, w[src].id,
                    Res(h5, TRUE, "", 0, NoValue, {}, FALSE))
    /\ UNCHANGED h5

\* operator=(File&&), operator=(Group&&), operator=(Dataset&&); dst may be src
MoveAssign(dst, src) ==
    /\ w[dst].live /\ w[src].live /\ SameClass(dst, src)
    /\ w' = MoveLink(w, dst, src)
    /\ last' = Last("move-assign", src, "", dst, NoValue, NoType, NoSpace, NoSelector, w[src].id,
                    Res(h5, TRUE, "", 0, NoValue, {}, FALSE))
    /\ UNCHANGED h5

\* File::close, Group::close, Dataset::close
Close(s) ==
    /\ w[s].live
    /\ LET c == Link_close(h5, w[s].id, ObjectOf(s))
       IN  /\ h5' = c.H
           /\ w' = [w EXCEPT ![s].id = c.id]
           /\ last' = Last("close", s, "", s, NoValue, NoType, NoSpace, NoSelector, w[s].id,
                           Res(c.H, TRUE, "", 0, NoValue, c.calls, c.nfail))

\* ~File, ~Group, ~Dataset: close(), and the wrapper is gone
Destroy(s) ==
    /\ w[s].live
    /\ LET c == Link_close(h5, w[s].id, ObjectOf(s))
       IN  /\ h5' = c.H
           /\ w' = [w EXCEPT ![s] = Dead]
           /\ last' = Last("destroy", s, "", s, NoValue, NoType, NoSpace, NoSelector, w[s].id,
                           Res(c.H, TRUE, "", 0, NoValue, c.calls, c.nfail))

\* Location::size
Size(s) ==
    /\ w[s].live
    /\ last' = Last("size", s, "", s, NoValue, NoType, NoSpace, NoSelector, w[s].id,
                    Link_size(h5, w[s].id))
    /\ UNCHANGED <<h5, w>>

\* File::intent
Intent(s) ==
    /\ w[s].live
    /\ last' = Last("intent", s, "", s, NoValue, NoType, NoSpace, NoSelector, w[s].id,
                    File_intent(h5, w[s].id))
    /\ UNCHANGED <<h5, w>>

\* an operation of a location that returns a Group or a Dataset
Returning(op, s, name, dst, type, space, object, r) ==
    LET d == Deliver(r, dst, object)
    IN  /\ h5' = d.H
        /\ w' = d.W
        /\ last' = Last(op, s, name, dst, NoValue, type, space, NoSelector, w[s].id,
                        After(r, d.calls, d.nfail))

\* Location::open_group(name)
OpenGroup(s, name, dst) ==
    /\ w[s].live /\ CanAllocate /\ DepthOk(s)
    /\ Returning("open_group", s, name, dst, NoType, NoSpace, "group",
                 Link_open_group(h5, w[s].id, name))

\* Location::require_group(name) and operator[](name), which returns it
RequireGroup(op, s, name, dst, garbage) ==
    /\ w[s].live /\ CanAllocate /\ DepthOk(s)
    /\ Returning(op, s, name, dst, NoType, NoSpace, "group",
                 require_group(h5, w[s].id, name, garbage))

\* Location::open_dataset(name)
OpenDataset(s, name, dst) ==
    /\ w[s].live /\ CanAllocate /\ DepthOk(s)
    /\ Returning("open_dataset", s, name, dst, NoType, NoSpace, "dataset",
                 Link_open_dataset(h5, w[s].id, name))

\* Location::require_dataset(name, type, space)
RequireDataset(s, name, type, space, dst, garbage) ==
    /\ w[s].live /\ CanAllocate /\ DepthOk(s)
    /\ Returning("require_dataset", s, name, dst, type, space, "dataset",
                 require_dataset(h5, w[s].id, name, type, space, garbage))

\* an operation that returns no wrapper
Plain(op, s, name, arg, sel, r) ==
    /\ h5' = r.H
    /\ last' = Last(op, s, name, "none", arg, NoType, NoSpace, sel, w[s].id, r)
    /\ UNCHANGED w

\* Location::write(name, value)
LocationWrite(s, name, value, garbage) ==
    /\ w[s].live /\ CanAllocate /\ DepthOk(s)
    /\ Plain("Location::write", s, name, value, NoSelector,
             Location_write(h5, w[s].id, name, value, garbage))

\* Location::read<T>(name)
LocationRead(s, name, ty) ==
    /\ w[s].live /\ CanAllocate /\ DepthOk(s)
    /\ Plain("Location::read", s, name, Value(ty, <<>>), NoSelector,
             Location_read(h5, w[s].id, name, ty))

\* Dataset::write(value)
DatasetWrite(s, value) ==
    /\ w[s].live
    /\ Plain("Dataset::write", s, "", value, NoSelector, Dataset_write(h5, w[s].id, value))

\* Dataset::read<T>()
DatasetRead(s, ty) ==
    /\ w[s].live
    /\ Plain("Dataset::read", s, "", Value(ty, <<>>), NoSelector, Dataset_read(h5, w[s].id, ty))

\* Dataset::read<T>(sel)
DatasetReadSelector(s, ty, sel) ==
    /\ w[s].live
    /\ Plain("Dataset::read(sel)", s, "", Value(ty, <<>>), sel,
             Dataset_read_selector(h5, w[s].id, ty, sel))


(***************************************************************************)
(* The arguments the operations are applied to.                            *)
(***************************************************************************)
\* the largest stride of a selector
MaxStride == 2

Modes == {"r", "r+", "w", "a"}

Elems == 1..MaxVal

Types == {H5T_NATIVE_INT, H5T_NATIVE_DOUBLE} \cup {with_size(H5T_C_S1, n) : n \in 1..MaxLen}

Spaces == {H5S_NULL, H5S_SCALAR} \cup {H5Screate_simple(<<n>>) : n \in 0..MaxLen}

Values ==
    {Value(ty, <<x>>) : ty \in {"int", "double"}, x \in Elems}
    \cup {Value(ty, e) : ty \in {"string", "vint", "vdouble"}, e \in SeqsUpTo(Elems, MaxLen)}

ReadTypes == {"int", "double", "string", "vint", "vdouble"}

Selectors ==
    {Selector(<<s>>, <<k>>, <<c>>, <<0>>) : s \in 0..(SelLen - 1), k \in 1..MaxStride, c \in 1..SelLen}
    \cup {Selector(<<0, 0>>, <<1, 1>>, <<1, 1>>, <<0, 0>>)}

\* the arguments of the handle life-cycle specification: one value per type
LifeTypes == {H5T_NATIVE_INT}
LifeValues == {Value("int", <<1>>), Value("string", <<>>)}
LifeReadTypes == {"int"}

(***************************************************************************)
(* Spec: every wrapper, every operation on handles and locations.          *)
(***************************************************************************)
Next ==
    \/ \E s \in FileSlots, mode \in Modes : FileOpen(s, mode)
    \/ \E s \in Slots : DefaultConstruct(s)
    \/ \E dst \in Slots, src \in Slots : MoveConstruct(dst, src)
    \/ \E dst \in Slots, src \in Slots : MoveAssign(dst, src)
    \/ \E s \in Slots : Close(s)
    \/ \E s \in Slots : Destroy(s)
    \/ \E s \in LocationSlots : Size(s)
    \/ \E s \in FileSlots : Intent(s)
    \/ \E s \in LocationSlots, name \in Names, dst \in Targets(GroupSlots) :
            OpenGroup(s, name, dst)
    \/ \E op \in {"require_group", "operator[]"}, s \in LocationSlots, name \in Names,
          dst \in Targets(GroupSlots), garbage \in BOOLEAN :
            RequireGroup(op, s, name, dst, garbage)
    \/ \E s \in LocationSlots, name \in Names, dst \in Targets(DsetSlots) :
            OpenDataset(s, name, dst)
    \/ \E s \in LocationSlots, name \in Names, type \in LifeTypes,
          dst \in Targets(DsetSlots), garbage \in BOOLEAN :
            RequireDataset(s, name, type, H5S_SCALAR, dst, garbage)
    \/ \E s \in LocationSlots, name \in Names, value \in LifeValues, garbage \in BOOLEAN :
            LocationWrite(s, name, value, garbage)
    \/ \E s \in LocationSlots, name \in Names, ty \in LifeReadTypes : LocationRead(s, name, ty)

Spec == Init /\ [][Next]_vars

(***************************************************************************)
(* SpecData: the data sets of a file opened with mode "w", read and        *)
(* written with every type, space, value and selector of the bounds.       *)
(***************************************************************************)
InitData ==
    LET r == File_open(NoFile, "w")
    IN  /\ h5 = r.H
        /\ w = [s \in Slots |-> IF s = "f1" THEN Wrapper(r.ret) ELSE Dead]
        /\ last = Last("File", "f1", "w", "f1", NoValue, NoType, NoSpace, NoSelector, InvalidId, r)


NextData ==
    \/ \E name \in Names, dst \in Targets({"d1"}) : OpenDataset("f1", name, dst)
    \/ \E name \in Names, type \in Types, space \in Spaces, dst \in Targets({"d1"}) :
            RequireDataset("f1", name, type, space, dst, FALSE)
    \/ \E name \in Names, value \in Values : LocationWrite("f1", name, value, FALSE)
    \/ \E name \in Names, ty \in ReadTypes : LocationRead("f1", name, ty)
    \/ \E value \in Values : DatasetWrite("d1", value)
    \/ \E ty \in ReadTypes : DatasetRead("d1", ty)
    \/ Destroy("d1")

SpecData == InitData /\ [][NextData]_vars

(***************************************************************************)
(* SpecSelect: a one-dimensional data set of SelLen numbers in a file      *)
(* opened with mode "w", written whole and read through selectors.         *)
(***************************************************************************)
SelectVectors == {Value(ty, e) : ty \in {"vint", "vdouble"},
                                e \in {t \in SeqsUpTo(Elems, SelLen) : Len(t) = SelLen}}

SelectSpaces == {H5S_SCALAR, H5Screate_simple(<<SelLen>>)}

NextSelect ==
    \/ \E type \in LifeTypes \cup {H5T_NATIVE_DOUBLE}, space \in SelectSpaces :
            RequireDataset("f1", "a", type, space, "d1", FALSE) /\ ~w["d1"].live
    \/ \E value \in SelectVectors : DatasetWrite("d1", value)
    \/ \E ty \in ReadTypes, sel \in Selectors : DatasetReadSelector("d1", ty, sel)

SpecSelect == InitData /\ [][NextSelect]_vars


(***************************************************************************)
(* SpecFile: File objects only.  The file is opened under every mode, by   *)
(* one or two File objects at a time, asked whether it exists, what its    *)
(* intent and size are, given a group, and closed.                         *)
(***************************************************************************)
NextFile ==
    \/ \E s \in FileSlots, mode \in Modes : FileOpen(s, mode)
    \/ FileExists
    \/ \E s \in FileSlots : Close(s)
    \/ \E s \in FileSlots : Destroy(s)
    \/ \E s \in FileSlots : Size(s)
    \/ \E s \in FileSlots : Intent(s)
    \/ \E s \in FileSlots, name \in Names : RequireGroup("require_group", s, name, "temp", FALSE)

SpecFile == Init /\ [][NextFile]_vars

(***************************************************************************)
(* Datatype and Dataspace objects.  Their native descriptors are ids of    *)
(* the library of kind "type" and "space", each with the value (desc) it   *)
(* describes.  SpecDesc constructs, copies, assigns, closes and destroys   *)
(* two Datatype and two Dataspace variables.                               *)
(***************************************************************************)
\* descriptors handed out in one run
MaxDescriptors == 3

TypeSlots == {"t1", "t2"}
SpaceSlots == {"s1", "s2"}
DescSlots == TypeSlots \cup SpaceSlots

DescKind(s) == IF s \in TypeSlots THEN "type" ELSE "space"

DescRec(kind, value) ==
    [kind |-> kind, path |-> <<>>, open |-> TRUE, closes |-> 0, desc |-> value]

\* H5Tcopy of a predefined type, H5Screate: a new descriptor
H5Xcreate(H, kind, value) ==
    [ret |-> Len(H.ids) + 1, H |-> [H EXCEPT !.ids = Append(@, DescRec(kind, value))]]

\* H5Tcopy(id), H5Scopy(id): a new descriptor of the same value; fails on an
\* id that is not an open descriptor of the kind
H5Xcopy(H, id, kind) ==
    IF Valid(H, id, {kind}) THEN H5Xcreate(H, kind, H.ids[id].desc) ELSE Fail(H)

\* Datatype::close and Dataspace::close: [H, ok, err, ret, ...] with ret the
\* id the wrapper holds afterwards.  Neither resets the id; only the
\* Dataspace checks what its native close returned.
Desc_close(H, id, kind) ==
    IF id = InvalidId THEN Res(H, TRUE, "", id, NoValue, {}, FALSE)
    ELSE LET c == H5Xclose(H, id, kind)
         IN  IF kind = "type"
             THEN Res(c.H, TRUE, "", id, NoValue, {"H5Tclose"}, c.ret < 0)
             ELSE [check(c, "H5Sclose") EXCEPT !.ret = id]

\* Datatype(const Datatype&), Dataspace(const Dataspace&): ret is the new
\* wrapper's id; only the Dataspace checks what the native copy returned
Desc_copy(H, other, kind) ==
    LET r == H5Xcopy(H, other, kind)
    IN  IF kind = "type"
        THEN Res(r.H, TRUE, "", r.ret, NoValue, {"H5Tcopy"}, r.ret < 0)
        ELSE check(r, "H5Scopy")

\* operator=(const T& other): close(); id = copy of other.id.  When a call
\* throws the wrapper keeps the id it had.
Desc_assign(H, id, other, kind) ==
    LET c == Desc_close(H, id, kind)
        r == Desc_copy(c.H, other, kind)
    IN  IF ~c.ok THEN c
        ELSE IF ~r.ok THEN [After(r, c.calls, c.nfail) EXCEPT !.ret = id]
        ELSE After(r, c.calls, c.nfail)

InitDesc ==
    /\ h5 = NoFile
    /\ w = [s \in DescSlots |-> Dead]
    /\ last = Last("init", "none", "", "none", NoValue, NoType, NoSpace, NoSelector, InvalidId,
                   Res(NoFile, TRUE, "", 0, NoValue, {}, FALSE))

DescRoom == Len(h5.ids) < MaxDescriptors

DescLast(op, s, dst, r) ==
    Last(op, s, "", dst, NoValue, NoType, NoSpace, NoSelector, w[s].id, r)

\* make_datatype_for(int()), Dataspace::scalar()
DescMake(s) ==
    /\ ~w[s].live /\ DescRoom
    /\ LET r == H5Xcreate(h5, DescKind(s),
                          IF s \in TypeSlots THEN H5T_NATIVE_INT ELSE H5S_SCALAR)
       IN  /\ h5' = r.H
           /\ w' = [w EXCEPT ![s] = Wrapper(r.ret)]
           /\ last' = DescLast("make", s, s, Res(r.H, TRUE, "", r.ret, NoValue, {}, FALSE))

\* T dst(src): copy construction; an exception leaves dst unconstructed
DescCopy(dst, src) ==
    /\ ~w[dst].live /\ w[src].live /\ DescKind(dst) = DescKind(src) /\ DescRoom
    /\ LET r == Desc_copy(h5, w[src].id, DescKind(src))
       IN  /\ h5' = r.H
           /\ w' = IF r.ok THEN [w EXCEPT ![dst] = Wrapper(r.ret)] ELSE w
           /\ last' = DescLast("copy", src, dst, r)

\* dst = src: copy assignment, dst and src may be the same object
DescAssign(dst, src) ==
    /\ w[dst].live /\ w[src].live /\ DescKind(dst) = DescKind(src) /\ DescRoom
    /\ LET r == Desc_assign(h5, w[dst].id, w[src].id, DescKind(src))
       IN  /\ h5' = r.H
           /\ w' = [w EXCEPT ![dst].id = r.ret]
           /\ last' = DescLast("copy-assign", src, dst, r)

\* Datatype dst(std::move(src)); Dataspace declares no move constructor
DescMove(dst, src) ==
    /\ dst \in TypeSlots /\ src \in TypeSlots /\ ~w[dst].live /\ w[src].live
    /\ w' = MoveLink(w, dst, src)
    /\ last' = DescLast("move", src, dst, Res(h5, TRUE, "", w[src].id, NoValue, {}, FALSE))
    /\ UNCHANGED h5

\* s.close()
DescClose(s) ==
    /\ w[s].live
    /\ LET c == Desc_close(h5, w[s].id, DescKind(s))
       IN  /\ h5' = c.H
           /\ w' = [w EXCEPT ![s].id = c.ret]
           /\ last' = DescLast("close", s, s, c)

\* ~Datatype, ~Dataspace: close(); an exception that leaves the destructor
\* ends the program ("terminate")
DescDestroy(s) ==
    /\ w[s].live
    /\ LET c == Desc_close(h5, w[s].id, DescKind(s))
       IN  /\ h5' = c.H
           /\ w' = [w EXCEPT ![s] = Dead]
           /\ last' = DescLast("destroy", s, s,
                               IF c.ok THEN c ELSE [c EXCEPT !.err = "terminate"])

NextDesc ==
    \/ \E s \in DescSlots : DescMake(s)
    \/ \E dst \in DescSlots, src \in DescSlots : DescCopy(dst, src)
    \/ \E dst \in DescSlots, src \in DescSlots : DescAssign(dst, src)
    \/ \E dst \in TypeSlots, src \in TypeSlots : DescMove(dst, src)
    \/ \E s \in DescSlots : DescClose(s)
    \/ \E s \in DescSlots : DescDestroy(s)

SpecDesc == InitDesc /\ [][NextDesc]_vars

(***************************************************************************)
(* SpecSpace: the Dataspace values the public interface builds.  last.space *)
(* is the Dataspace the last operation returned; select_all, select_none   *)
(* and the copy constructor are applied to it.                             *)
(***************************************************************************)
\* H5Sselect_all, H5Sselect_none
H5Sselect_all(space) ==
    IF space.kind = "none" THEN [ret |-> -1, space |-> space]
    ELSE [ret |-> 0, space |-> [space EXCEPT !.sel = SelAll]]

H5Sselect_none(space) ==
    IF space.kind = "none" THEN [ret |-> -1, space |-> space]
    ELSE [ret |-> 0, space |-> [space EXCEPT !.sel = SelNone]]

\* H5Sget_select_bounds: the bounding box of the selection; fails when
\* nothing is selected
H5Sget_select_bounds(space) ==
    CASE space.kind = "none" \/ H5Sget_select_npoints(space) = 0 ->
            [ret |-> -1, lower |-> <<>>, upper |-> <<>>]
      [] space.sel.mode = "all" ->
            [ret |-> 0, lower |-> [k \in 1..Len(space.dims) |-> 0],
             upper |-> [k \in 1..Len(space.dims) |-> space.dims[k] - 1]]
      [] OTHER ->
            [ret |-> 0, lower |-> space.sel.start,
             upper |-> [k \in 1..Len(space.dims) |->
                          space.sel.start[k] + (space.sel.count[k] - 1) * space.sel.stride[k]
                              + space.sel.block[k] - 1]]

\* Dataspace(std::initializer_list<std::size_t> dims)
DataspaceFromList(dims) == IF Len(dims) = 0 THEN H5S_SCALAR ELSE H5Screate_simple(dims)

\* selectors over an extent of their own: count is the extent, and the slice
\* (start, skips, shape) may lie inside it or reach past it
ExtentSelectors ==
    {Selector(<<s>>, <<k>>, <<c>>, <<n>>) :
        s \in 0..(SelLen - 1), k \in 1..MaxStride, c \in 1..SelLen, n \in 1..SelLen}
    \cup {Selector(<<0, s>>, <<1, k>>, <<1, c>>, <<2, SelLen>>) :
            s \in 0..1, k \in 1..MaxStride, c \in 1..2}

SpaceDims == {d \in SeqsUpTo(0..MaxLen, 2) : Len(d) > 0}

SpaceLast(op, sel, space, ok, err, calls) ==
    Last(op, "none", "", "none", NoValue, NoType, space, sel, InvalidId,
         Res(h5, ok, err, 0, NoValue, calls, ~ok))

Built(op, sel, space) == last' = SpaceLast(op, sel, space, TRUE, "", {}) /\ UNCHANGED <<h5, w>>

\* Dataspace()
SpaceDefault == Built("Dataspace()", NoSelector, H5S_NULL)

\* Dataspace::scalar()
SpaceScalar == Built("scalar", NoSelector, H5S_SCALAR)

\* Dataspace::simple(dims)
SpaceSimple(dims) == Built("simple", NoSelector, H5Screate_simple(dims))

\* Dataspace{dims...}
SpaceList(dims) == Built("Dataspace{}", NoSelector, DataspaceFromList(dims))

\* Dataspace(sel)
SpaceFromSelector(sel) ==
    LET r == DataspaceFromSelector(sel)
    IN  /\ last' = SpaceLast("Dataspace(sel)", sel, r.space, r.ok, r.err, {"H5Sselect_hyperslab"})
        /\ UNCHANGED <<h5, w>>

\* space.select_all(), space.select_none() on the Dataspace just built
SpaceSelect(op) ==
    /\ last.ok /\ last.space.kind # "none"
    /\ LET r == IF op = "select_all" THEN H5Sselect_all(last.space) ELSE H5Sselect_none(last.space)
       IN  last' = SpaceLast(op, last.sel, r.space, r.ret >= 0, IF r.ret >= 0 THEN "" ELSE "native",
                             {IF op = "select_all" THEN "H5Sselect_all" ELSE "H5Sselect_none"})
    /\ UNCHANGED <<h5, w>>

\* Dataspace(const Dataspace&) of the Dataspace just built: H5Scopy keeps
\* the extent and the selection
SpaceCopy ==
    /\ last.ok /\ last.space.kind # "none" /\ last.op # "copy"
    /\ last' = SpaceLast("copy", last.sel, last.space, TRUE, "", {"H5Scopy"})
    /\ UNCHANGED <<h5, w>>

NextSpace ==
    \/ SpaceDefault
    \/ SpaceScalar
    \/ \E dims \in SpaceDims : SpaceSimple(dims)
    \/ \E dims \in SpaceDims \cup {<<>>} : SpaceList(dims)
    \/ \E sel \in ExtentSelectors : SpaceFromSelector(sel)
    \/ \E op \in {"select_all", "select_none"} : SpaceSelect(op)
    \/ SpaceCopy

SpecSpace == Init /\ [][NextSpace]_vars

(***************************************************************************)
(* Datatype construction: make_datatype_for, size(), with_size() and       *)
(* operator== applied to values; the strings may hold any byte.            *)
(***************************************************************************)
TypeStrings == {Value("string", e) : e \in SeqsUpTo(0..MaxVal, MaxLen)}

TypeValues == Values \cup TypeStrings

\* the native calls of make_datatype_for(val)
make_datatype_calls(val) ==
    IF val.ty = "string" THEN {"H5Tcopy", "H5Tset_size"} ELSE {"H5Tcopy"}

TypeLast(op, arg, type, ret, other, calls, nfail) ==
    Last(op, "none", "", "none", arg, type, NoSpace, NoSelector, InvalidId,
         Res(NoFile, TRUE, "", ret, other, calls, nfail))

\* make_datatype_for(val).size()
TypeSize(val) ==
    LET type == make_datatype_for(val)
    IN  /\ last' = TypeLast("Datatype::size", val, type, H5Tget_size(type), NoValue,
                            make_datatype_calls(val) \cup {"H5Tget_size"},
                            make_datatype_failed(val))
        /\ UNCHANGED <<h5, w>>

\* make_datatype_for(val).with_size(size).size()
TypeWithSize(val, size) ==
    LET type == with_size(make_datatype_for(val), size)
    IN  /\ last' = TypeLast("Datatype::with_size", val, type, H5Tget_size(type), NoValue,
                            make_datatype_calls(val) \cup {"H5Tset_size", "H5Tget_size"},
                            make_datatype_failed(val)
                                \/ with_size_failed(make_datatype_for(val), size))
        /\ UNCHANGED <<h5, w>>

\* make_datatype_for(a) == make_datatype_for(b)
TypeEqual(a, b) ==
    LET ta == make_datatype_for(a)
        tb == make_datatype_for(b)
    IN  /\ last' = TypeLast("Datatype::operator==", a, ta,
                            IF H5Tequal(ta, tb) > 0 THEN 1 ELSE 0, b,
                            make_datatype_calls(a) \cup make_datatype_calls(b) \cup {"H5Tequal"},
                            make_datatype_failed(a) \/ make_datatype_failed(b))
        /\ UNCHANGED <<h5, w>>

NextType ==
    \/ \E val \in TypeValues : TypeSize(val)
    \/ \E val \in TypeStrings, size \in 0..MaxLen : TypeWithSize(val, size)
    \/ \E a \in TypeStrings, b \in TypeStrings : TypeEqual(a, b)

SpecType == Init /\ [][NextType]_vars

(***************************************************************************)
(* Link names of one location: size(), begin()..end() and the iterator's   *)
(* operator*.  A name is a stem followed by pad bytes 'x', so that names   *)
(* around the iterator's buffer size can be told apart by their length     *)
(* and a truncated name differs from the name it was cut from.  h5 is the  *)
(* link table of the root of a file opened with "w", with the iterator's   *)
(* static buffer.                                                          *)
(***************************************************************************)
\* static char name[1024]
BufSize == 1024

\* the scenario's names in the order of strcmp; each is StemLen bytes long
IterStems == <<"group1", "group2", "group3">>
StemLen == 6

MaxChildren == 3

Name(stem, pad) == [stem |-> stem, pad |-> pad]
NameLen(n) == StemLen + n.pad

\* the content of a zero-initialised buffer
EmptyName == [stem |-> "", pad |-> 0]

StemRank(stem) == CHOOSE i \in 1..Len(IterStems) : IterStems[i] = stem

\* strcmp(a, b) < 0
NameLess(a, b) ==
    \/ StemRank(a.stem) < StemRank(b.stem)
    \/ a.stem = b.stem /\ a.pad < b.pad

\* names of StemLen, BufSize - 1, BufSize and BufSize + 1 bytes
IterNames ==
    {Name(IterStems[i], 0) : i \in 1..Len(IterStems)}
    \cup {Name(IterStems[2], BufSize - StemLen + d) : d \in {-1, 0, 1}}

IterFile == [links |-> [n \in IterNames |-> "none"], buf |-> EmptyName]

LinkNames(H) == {n \in IterNames : H.links[n] # "none"}

\* the links of a group in the order of its name index
RECURSIVE SortNames(_)
SortNames(S) ==
    IF S = {} THEN <<>>
    ELSE LET first == CHOOSE n \in S : \A m \in S \ {n} : NameLess(n, m)
         IN  <<first>> \o SortNames(S \ {first})

\* H5Literate with a callback that returns 0: idx ends at the number of links
IterLiterate(H) == Cardinality(LinkNames(H))

\* an iteration that ignores idx and reports the first link again and again
H5Lget_name_by_idx_first(H, idx, size) ==
    LET names == SortNames(LinkNames(H))
    IN  IF idx >= Len(names) THEN [ret |-> -1, buf |-> H.buf]
        ELSE [ret |-> NameLen(names[1]),
              buf |-> IF NameLen(names[1]) < size THEN names[1]
                      ELSE Name(names[1].stem, size - 1 - StemLen)]

\* H5Lget_name_by_idx(id, ".", H5_INDEX_NAME, H5_ITER_NATIVE, idx, name, size):
\* negative and the buffer untouched when there is no link idx; otherwise the
\* length of the name, and the buffer holds its first size - 1 bytes
H5Lget_name_by_idx(H, idx, size) ==
    LET names == SortNames(LinkNames(H))
    IN  IF idx >= Len(names) THEN [ret |-> -1, buf |-> H.buf]
        ELSE [ret |-> NameLen(names[idx + 1]),
              buf |-> IF NameLen(names[idx + 1]) < size THEN names[idx + 1]
                      ELSE Name(names[idx + 1].stem, size - 1 - StemLen)]

\* Link::iterator::operator*
iterator_deref(H, idx) ==
    LET g  == H5Lget_name_by_idx(H, idx, BufSize)
        H1 == [H EXCEPT !.buf = g.buf]
    IN  IF g.ret > BufSize
        THEN Res(H1, FALSE, "overflow", -1, EmptyName, {"H5Lget_name_by_idx"}, FALSE)
        ELSE Res(H1, TRUE, "", g.ret, g.buf, {"H5Lget_name_by_idx"}, g.ret < 0)

\* for (auto name : location): the names yielded from idx up to end
RECURSIVE iterate(_, _, _, _)
iterate(H, idx, end, yielded) ==
    IF idx >= end THEN Res(H, TRUE, "", end, yielded, {"H5Literate", "H5Lget_name_by_idx"}, FALSE)
    ELSE LET r == iterator_deref(H, idx)
         IN  IF ~r.ok THEN [r EXCEPT !.val = yielded, !.calls = @ \cup {"H5Literate"}]
             ELSE iterate(r.H, idx + 1, end, Append(yielded, r.val))

\* Link::create_group / Link::create_dataset: H5Gcreate / H5Dcreate refuse a
\* name that is already linked
Iter_create(H, name, kind) ==
    IF H.links[name] # "none"
    THEN Res(H, FALSE, "native", InvalidId, NoValue, {"H5Lexists", "create"}, TRUE)
    ELSE Res([H EXCEPT !.links[name] = kind], TRUE, "", 0, NoValue, {"H5Lexists", "create"}, FALSE)

\* Location::require_group / Location::require_dataset<int> / Location::write
\* of an int: open the link if it is of the kind asked for, create it if not
Iter_require(H, name, kind) ==
    IF H.links[name] = kind
    THEN Res(H, TRUE, "", 0, NoValue, {"H5Lexists", "H5Oget_info_by_name", "open"}, FALSE)
    ELSE Iter_create(H, name, kind)

IterRoom(name) == h5.links[name] # "none" \/ Cardinality(LinkNames(h5)) < MaxChildren

IterLast(op, name, idx, r) ==
    Last(op, "f1", "", "none", idx, NoType, NoSpace, NoSelector, InvalidId,
         [r EXCEPT !.H = NoFile]) @@ [child |-> name]

InitIter ==
    /\ h5 = IterFile
    /\ w = [s \in Slots |-> Dead]
    /\ last = IterLast("init", EmptyName, 0, Res(NoFile, TRUE, "", 0, NoValue, {}, FALSE))

IterRequire(op, name, kind) ==
    /\ IterRoom(name)
    /\ LET r == Iter_require(h5, name, kind)
       IN  /\ h5' = r.H
           /\ last' = IterLast(op, name, 0, r)
    /\ UNCHANGED w

IterSize ==
    /\ last' = IterLast("size", EmptyName, 0,
                        Res(h5, TRUE, "", IterLiterate(h5), NoValue, {"H5Literate"}, FALSE))
    /\ UNCHANGED <<h5, w>>

\* *iterator(id, idx) for an idx from begin() to end()
IterDeref(idx) ==
    /\ idx <= IterLiterate(h5)
    /\ LET r == iterator_deref(h5, idx)
       IN  /\ h5' = r.H
           /\ last' = IterLast("operator*", EmptyName, idx, r)
    /\ UNCHANGED w

IterLoop ==
    /\ LET r == iterate(h5, 0, IterLiterate(h5), <<>>)
       IN  /\ h5' = r.H
           /\ last' = IterLast("for", EmptyName, 0, r)
    /\ UNCHANGED w

NextIter ==
    \/ \E name \in IterNames : IterRequire("require_group", name, "group")
    \/ \E name \in IterNames : IterRequire("require_dataset", name, "dataset")
    \/ \E name \in IterNames : IterRequire("write", name, "dataset")
    \/ IterSize
    \/ \E idx \in 0..MaxChildren : IterDeref(idx)
    \/ IterLoop

SpecIter == InitIter /\ [][NextIter]_vars

(***************************************************************************)
(* Properties.                                                             *)
(***************************************************************************)
\* the wrapper that acted holds an open location the file lets it write to
ActedOnWritableLocation(H, W, l) == IsLocation(H, W[l.slot].id) /\ H.flags = "rdwr"

\* the child the operation named
NamedChild(H, W, l) == ChildPath(H, W[l.slot].id, l.name)

\* C1: over every sequence of open/create, move construction, move
\* assignment, close and destruction of File, Group and Dataset wrappers, no
\* valid native id is held by two live wrappers, the wrapper a move took the
\* id from holds -1, and each native id has had at most one native close
\* issued for it, which was the close of its own kind (it released the id).
C1_ExclusiveOwnership ==
    /\ \A s \in Slots, t \in Slots :
         (s # t /\ w[s].live /\ w[t].live /\ w[s].id # InvalidId) => w[s].id # w[t].id
    /\ last.op \in {"move", "move-assign"} => w[last.slot].id = InvalidId
    /\ \A i \in 1..Len(h5.ids) :
         /\ h5.ids[i].closes <= 1
         /\ h5.ids[i].closes = 1 => ~h5.ids[i].open

\* an open id has just been moved from one wrapper to another, and an
\* earlier id has been closed
C1_Witness ==
    /\ last.op \in {"move", "move-assign"}
    /\ last.dst # last.slot
    /\ last.pre # InvalidId /\ w[last.dst].id = last.pre /\ h5.ids[last.pre].open
    /\ \E i \in 1..Len(h5.ids) : h5.ids[i].closes = 1

\* C4 (as claimed): whenever a native call made by a wrapper operation
\* returns its failure value, the operation raises a failure.
C4_NativeFailureRaises == last.nfail => ~last.ok

\* C5: close() of a File, Group or Dataset never raises and leaves the wrapper
\* not open; the close of a wrapper that holds an id releases that id with
\* one native close call of its kind, and a close of a wrapper that holds
\* none issues no native call.
C5_CloseIdempotent ==
    last.op = "close" =>
        /\ last.ok
        /\ ~is_open(w, last.slot)
        /\ last.pre = InvalidId => last.calls = {}
        /\ last.pre # InvalidId =>
             /\ last.calls = {CloseCall(ObjectOf(last.slot))}
             /\ ~h5.ids[last.pre].open
             /\ h5.ids[last.pre].closes = 1

\* a File that was opened and closed is closed again
C5_Witness ==
    /\ last.op = "close" /\ last.slot = "f1" /\ last.pre = InvalidId
    /\ ~w["f2"].live
    /\ \E i \in 1..Len(h5.ids) : h5.ids[i].kind = "file" /\ h5.ids[i].closes = 1

LocationOps ==
    {"open_group", "require_group", "operator[]", "open_dataset", "require_dataset",
     "Location::read", "Location::write", "intent"}

\* C6: on a File or Group that is closed or was moved from (its id is -1),
\* open_group, require_group, operator[], open_dataset, require_dataset,
\* read, write and intent raise a failure, and the step changes nothing in
\* the library: no child is created and no native id is allocated.
C6_ClosedLocationFails ==
    [][(last'.op \in LocationOps /\ last'.pre = InvalidId) =>
            (~last'.ok /\ h5' = h5 /\ w' = w)]_vars

\* require_group has just failed on a Group wrapper whose group was closed
C6_Witness ==
    /\ last.op = "require_group" /\ last.slot = "g1" /\ last.pre = InvalidId /\ ~last.ok
    /\ \E i \in 1..Len(h5.ids) : h5.ids[i].kind = "group" /\ ~h5.ids[i].open

RequireGroupOps == {"require_group", "operator[]"}

\* C8 (as claimed): on an open writable location, require_group(name) and
\* operator[](name) never raise, for any name.
C8_RequireGroupNeverRaises ==
    (last.op \in RequireGroupOps /\ ActedOnWritableLocation(h5, w, last)) => last.ok

\* C8 (amended): on an open writable location, for a name that is not the
\* name of a data set there, require_group(name) and operator[](name) do not
\* raise and return the group of that name: they create it when the name is
\* free, and otherwise open it and leave the file's tree, hence the
\* location's size and child names, unchanged.
C8_RequireGroupIdempotent ==
    [][(/\ last'.op \in RequireGroupOps
        /\ ActedOnWritableLocation(h5, w, last')
        /\ h5.tree[NamedChild(h5, w, last')].kind # "dataset") =>
            LET p == NamedChild(h5, w, last')
            IN  /\ last'.ok
                /\ h5'.ids[last'.ret].kind = "group" /\ h5'.ids[last'.ret].path = p
                /\ h5'.tree = [h5.tree EXCEPT ![p] = GroupObj]
                /\ h5.tree[p].kind = "group" => h5'.tree = h5.tree]_vars

\* a require_group that found the group and opened it
C8_Witness ==
    /\ last.op = "require_group" /\ last.ok
    /\ "H5Gopen" \in last.calls
    /\ ActedOnWritableLocation(h5, w, last)

TypeMismatch == "source and target have different data types"

NativeTransfers == {"H5Dread", "H5Dwrite"}

\* the data set a read or write is about to act on: the one the Dataset
\* wrapper holds, or the child the Location operation names
TargetPath(H, W, l) ==
    IF l.op \in {"Location::read", "Location::write"} THEN NamedChild(H, W, l)
    ELSE H.ids[W[l.slot].id].path

HasTarget(H, W, l) ==
    /\ IF l.op \in {"Location::read", "Location::write"} THEN IsLocation(H, W[l.slot].id)
       ELSE Valid(H, W[l.slot].id, {"dataset"})
    /\ H.tree[TargetPath(H, W, l)].kind = "dataset"

\* the in-memory Datatype of the value a read or write transfers
MemoryType(obj, l) ==
    IF l.op \in {"Dataset::write", "Location::write"} THEN make_datatype_for(l.arg)
    ELSE make_datatype_for(prepare(obj.type, obj.space, l.arg.ty))

\* C2: a Dataset::write(value), a Dataset::read<T>() or a Location::read<T>
\* whose in-memory Datatype differs from the data set's on-disk Datatype
\* (another class, or another string length) fails with the message 'source
\* and target have different data types', issues neither H5Dread nor
\* H5Dwrite, and leaves the file's contents as they were.
C2_TypeMismatchRejected ==
    [][(/\ last'.op \in {"Dataset::write", "Dataset::read", "Location::read"}
        /\ HasTarget(h5, w, last')
        /\ MemoryType(h5.tree[TargetPath(h5, w, last')], last')
               # h5.tree[TargetPath(h5, w, last')].type) =>
            /\ ~last'.ok
            /\ last'.err = TypeMismatch
            /\ last'.calls \cap NativeTransfers = {}
            /\ h5'.tree = h5.tree]_vars

\* a string of one length written to a data set of strings of another, and
\* refused for its type
C2_Witness ==
    /\ last.op = "Dataset::write" /\ ~last.ok /\ last.err = TypeMismatch
    /\ last.arg.ty = "string"
    /\ Valid(h5, w[last.slot].id, {"dataset"})
    /\ DatasetOf(h5, w[last.slot].id).type.cls = "string"
    /\ DatasetOf(h5, w[last.slot].id).type.size # Len(last.arg.elems)

DifferentDataset == "data set with different type or space already exists"

\* C7: on the open, writable file, require_dataset(name, T, S) creates a data
\* set of type T and extent S when the name is free, returns the existing
\* data set when it has type T and an extent equal to S, and otherwise, when
\* the name is a data set, fails with 'data set with different type or space
\* already exists'; in the last two cases the file's contents are unchanged
\* and, on the failure, the data set it opened to look at is closed again.
C7_RequireDataset ==
    [][(last'.op = "require_dataset" /\ ActedOnWritableLocation(h5, w, last')) =>
         LET p    == NamedChild(h5, w, last')
             obj  == h5.tree[p]
             same == /\ obj.type = last'.type
                     /\ obj.space.kind = last'.space.kind
                     /\ obj.space.dims = last'.space.dims
         IN  /\ obj.kind = "none" =>
                    /\ last'.ok
                    /\ h5'.tree = [h5.tree EXCEPT ![p] = DatasetObj(last'.type, last'.space)]
                    /\ h5'.ids[last'.ret].kind = "dataset" /\ h5'.ids[last'.ret].path = p
             /\ (obj.kind = "dataset" /\ same) =>
                    /\ last'.ok
                    /\ h5'.tree = h5.tree
                    /\ h5'.ids[last'.ret].kind = "dataset" /\ h5'.ids[last'.ret].path = p
             /\ (obj.kind = "dataset" /\ ~same) =>
                    /\ ~last'.ok
                    /\ last'.err = DifferentDataset
                    /\ h5'.tree = h5.tree
                    /\ \A i \in (Len(h5.ids) + 1)..Len(h5'.ids) : ~h5'.ids[i].open]_vars

\* require_dataset has refused a data set with the asked type and another extent
C7_Witness ==
    /\ last.op = "require_dataset" /\ ~last.ok /\ last.err = DifferentDataset
    /\ h5.tree[NamedChild(h5, w, last)].type = last.type
    /\ h5.tree[NamedChild(h5, w, last)].space.dims # last.space.dims

\* C9 (as claimed): a value of type int, double, std::string, vector of int or
\* vector of double that was written with Location::write(name, v) or
\* Dataset::write(v) and is read back next, with the same type, through
\* Location::read(name) or Dataset::read(), comes back equal to v; a string
\* comes back with its exact byte length.
C9_RoundTrip ==
    [][(/\ last.ok /\ last'.arg.ty = last.arg.ty /\ last'.slot = last.slot
        /\ \/ last.op = "Location::write" /\ last'.op = "Location::read" /\ last'.name = last.name
           \/ last.op = "Dataset::write" /\ last'.op = "Dataset::read") =>
            (last'.ok /\ last'.val = last.arg)]_vars

\* the data set the Dataset wrapper that acted holds
Held(H, W, l) == DatasetOf(H, W[l.slot].id)

\* a selector of another rank than the data set
RankMismatch(obj, l) ==
    l.op = "Dataset::read(sel)" /\ Len(l.sel.start) # Len(obj.space.dims)

\* a selector of the data set's rank that reaches past its extent
OutOfExtent(obj, l) ==
    /\ l.op = "Dataset::read(sel)" /\ Len(l.sel.start) = Len(obj.space.dims)
    /\ \E k \in 1..Len(obj.space.dims) :
         l.sel.start[k] + (l.sel.shape[k] - 1) * l.sel.skips[k] >= obj.space.dims[k]

\* the in-memory value holds another number of elements than are selected in
\* the file: a whole-data-set write of a vector of another length, or a
\* selected read into a target that holds one element
CountMismatch(obj, l) ==
    \/ /\ l.op = "Dataset::write"
       /\ H5Sget_select_npoints(make_dataspace_for(l.arg)) # H5Sget_select_npoints(obj.space)
    \/ /\ l.op = "Dataset::read(sel)" /\ Len(l.sel.start) = Len(obj.space.dims)
       /\ ~IsVector(l.arg.ty)
       /\ Product(l.sel.shape) # 1

BadTransfer(H, W, l) ==
    /\ l.op \in {"Dataset::write", "Dataset::read(sel)"}
    /\ Valid(H, W[l.slot].id, {"dataset"})
    /\ \/ RankMismatch(Held(H, W, l), l)
       \/ OutOfExtent(Held(H, W, l), l)
       \/ CountMismatch(Held(H, W, l), l)

C10_SelectedRead ==
    (last.op = "Dataset::read(sel)" /\ Valid(h5, w[last.slot].id, {"dataset"})) =>
        LET obj == Held(h5, w, last)
            s   == last.sel.start[1]
            k   == last.sel.skips[1]
            c   == last.sel.shape[1]
        IN  /\ RankMismatch(obj, last) => ~last.ok
            /\ (obj.space.kind = "simple" /\ Len(obj.space.dims) = 1 /\ Len(last.sel.start) = 1) =>
                 /\ OutOfExtent(obj, last) => ~last.ok
                 /\ (~OutOfExtent(obj, last) /\ IsVector(last.arg.ty)
                        /\ make_datatype_for(last.arg) = obj.type) =>
                        /\ last.ok
                        /\ last.val = Value(last.arg.ty, [i \in 1..c |-> obj.data[s + (i - 1) * k + 1]])

\* every second element, two of them, read from <<1, 1, 2>>
C10_Witness ==
    /\ last.op = "Dataset::read(sel)" /\ last.ok
    /\ last.sel = Selector(<<0>>, <<2>>, <<2>>, <<0>>)
    /\ Valid(h5, w[last.slot].id, {"dataset"})
    /\ Held(h5, w, last).data = <<1, 1, 2>>
    /\ last.val.elems = <<1, 2>>

BadMode == "File mode must be r, r+, or w"

\* C11 (as claimed): opening a File with mode "w" always succeeds and yields
\* an open, empty location, whatever the path held before.
C11_CreateAlwaysSucceeds ==
    (last.op = "File" /\ last.name = "w") =>
        (last.ok /\ is_open(w, last.slot) /\ Link_size(h5, w[last.slot].id).ret = 0)

\* C11 (amended): with mode "r" or "r+" on a path that holds no file the open
\* fails and creates none; with mode "w", when no handle of the process has
\* the file open, the open succeeds and yields an open, empty location
\* whatever the file held before; with any other mode the constructor fails
\* with 'File mode must be r, r+, or w' and makes no native call; and an open
\* with mode "r" succeeds exactly when File::exists is true.
C11_FileOpen ==
    [][last'.op = "File" =>
         /\ (last'.name \in {"r", "r+"} /\ ~h5.exists) =>
                (~last'.ok /\ h5' = h5 /\ w' = w)
         /\ (last'.name = "w" /\ ~AnyOpen(h5.ids)) =>
                /\ last'.ok /\ is_open(w', last'.slot)
                /\ h5'.exists /\ Children(h5', <<>>) = {}
                /\ Link_size(h5', w'[last'.slot].id).ret = 0
         /\ last'.name \notin {"r", "r+", "w"} =>
                (~last'.ok /\ last'.err = BadMode /\ last'.calls = {} /\ h5' = h5 /\ w' = w)
         /\ last'.name = "r" => (last'.ok <=> File_exists(h5).ret = 1)
         /\ (last.op = "exists" /\ last'.name = "r") => (last'.ok <=> last.ret = 1)]_vars

\* a file that holds a group has just been opened with mode "w" and is empty
C11_Witness ==
    /\ last.op = "File" /\ last.name = "w" /\ last.ok
    /\ w[last.slot].id > 1
    /\ h5.ids[w[last.slot].id - 1].kind = "group"
    /\ Link_size(h5, w[last.slot].id).ret = 0

IntentOf(mode) == IF mode = "r" THEN "rdonly" ELSE "rdwr"

DescCopyOps == {"copy", "copy-assign"}

\* C12 (as claimed): a copy construction or copy assignment from a wrapper that
\* holds a live descriptor (assignment to itself included) returns normally
\* and leaves the target with a live descriptor of its own, of the source's
\* value; a close or destruction of one wrapper leaves live every descriptor
\* another wrapper holds; and close and destruction never fail and never
\* issue a second native close for a descriptor.
C12_IndependentCopies ==
    [][/\ (last'.op \in DescCopyOps /\ Valid(h5, last'.pre, {"type", "space"})) =>
            /\ last'.ok
            /\ Valid(h5', w'[last'.dst].id, {DescKind(last'.dst)})
            /\ h5'.ids[w'[last'.dst].id].desc = h5.ids[last'.pre].desc
            /\ \A t \in DescSlots \ {last'.dst} : w'[t].live => w'[t].id # w'[last'.dst].id
       /\ last'.op \in {"close", "destroy"} =>
            /\ last'.ok
            /\ \A t \in DescSlots \ {last'.slot} :
                 (w[t].live /\ Valid(h5, w[t].id, {"type", "space"})) =>
                     Valid(h5', w'[t].id, {"type", "space"})
       /\ \A i \in 1..Len(h5'.ids) : h5'.ids[i].closes <= 1]_vars

\* C13: a data set's element type and extent are fixed when it is created:
\* whatever Dataset::write, Dataset::read, require_dataset, open_dataset,
\* Location::write or Location::read does next, and whether it succeeds or
\* fails, every data set of the file is still a data set of the same type
\* and the same extent, and so are get_type() and get_space() of a Dataset
\* object that holds it.
C13_TypeAndExtentFixed ==
    [][/\ \A p \in Paths :
            h5.tree[p].kind = "dataset" =>
                /\ h5'.tree[p].kind = "dataset"
                /\ h5'.tree[p].type = h5.tree[p].type
                /\ H5Sextent_equal(h5'.tree[p].space, h5.tree[p].space) = 1
       /\ (Valid(h5, w["d1"].id, {"dataset"}) /\ w'["d1"] = w["d1"]) =>
            /\ H5Dget_type(h5', w'["d1"].id).type = H5Dget_type(h5, w["d1"].id).type
            /\ H5Dget_space(h5', w'["d1"].id).space.dims = H5Dget_space(h5, w["d1"].id).space.dims]_vars

\* a data set of one int, holding a value that was written, has just refused
\* to become a data set of another type or extent
C13_Witness ==
    /\ last.op \in {"require_dataset", "Location::write"} /\ ~last.ok
    /\ h5.tree[NamedChild(h5, w, last)].kind = "dataset"
    /\ h5.tree[NamedChild(h5, w, last)].type = H5T_NATIVE_INT
    /\ h5.tree[NamedChild(h5, w, last)].data = <<1>>

\* the Dataspace the last operation built or returned
BuiltSpace == last.ok /\ last.space.kind # "none"

\* C14 (as claimed): every Dataspace built by scalar(), simple(dims), the
\* initializer list, a selector, select_all(), select_none() or a copy has
\* its selection inside its extent: selection_size() <= size(), and a
\* selection that is not empty has selection_upper()[i] < extent()[i] on
\* every axis.  The default Dataspace has rank 0 and size 0, and a hyperslab
\* cannot be selected on it.
C14_SelectionInsideExtent ==
    BuiltSpace =>
        /\ H5Sget_select_npoints(last.space) <= H5Sget_simple_extent_npoints(last.space)
        /\ H5Sget_select_npoints(last.space) > 0 =>
             \A i \in 1..Len(last.space.dims) :
                 H5Sget_select_bounds(last.space).upper[i] < last.space.dims[i]
        /\ last.op = "Dataspace()" =>
             /\ H5Sget_simple_extent_ndims(last.space) = 0
             /\ H5Sget_simple_extent_npoints(last.space) = 0
             /\ H5Sselect_hyperslab(last.space, <<>>, <<>>, <<>>, <<>>).ret < 0

\* C20: the Dataspace built from a selector has the selector's rank, the
\* selector's count as its extent, and as its selection the hyperslab of the
\* selector's start, skips as stride, shape as count and blocks of 1; so
\* selection_size() is the product of the shape, selection_lower() is the
\* start and selection_upper()[i] is start[i] + (shape[i] - 1) * skips[i].
\* Selectors over one count give Dataspaces of one extent.
C20_DataspaceFromSelector ==
    (last.op = "Dataspace(sel)" /\ last.ok) =>
        LET sp == last.space
            sl == last.sel
            n  == Len(sl.start)
        IN  /\ H5Sget_simple_extent_ndims(sp) = n
            /\ sp.kind = "simple" /\ sp.dims = sl.count
            /\ sp.sel = [mode |-> "hyper", start |-> sl.start, stride |-> sl.skips,
                         count |-> sl.shape, block |-> [k \in 1..n |-> 1]]
            /\ H5Sget_select_npoints(sp) = Product(sl.shape)
            /\ H5Sget_select_bounds(sp).lower = sl.start
            /\ H5Sget_select_bounds(sp).upper =
                   [i \in 1..n |-> sl.start[i] + (sl.shape[i] - 1) * sl.skips[i]]
            /\ H5Sextent_equal(sp, H5Screate_simple(sl.count)) = 1

\* a two-dimensional selector with a stride of 2 on its second axis has been
\* made a Dataspace that selects 2 elements of its 2 x SelLen extent
C20_Witness ==
    /\ last.op = "Dataspace(sel)" /\ last.ok
    /\ last.sel = Selector(<<0, 0>>, <<1, 2>>, <<1, 2>>, <<2, SelLen>>)
    /\ H5Sget_select_npoints(last.space) = 2
    /\ H5Sget_simple_extent_npoints(last.space) = 2 * SelLen

\* C15 (as claimed): the Datatype built for a string has size() equal to the
\* string's length for every length, the empty string included, and the
\* Datatypes built for two strings are equal exactly when the strings'
\* lengths are equal.
C15_StringTypeSize ==
    /\ (last.op = "Datatype::size" /\ last.arg.ty = "string") =>
           last.ret = Len(last.arg.elems)
    /\ last.op = "Datatype::operator==" =>
           (last.ret = 1 <=> Len(last.arg.elems) = Len(last.val.elems))

\* the names a range-for over the location yielded are the location's child
\* names, each once
YieldsEachChildOnce ==
    /\ last.ok
    /\ Len(last.val) = Cardinality(LinkNames(h5))
    /\ {last.val[i] : i \in 1..Len(last.val)} = LinkNames(h5)

ScenarioGroups == {Name(IterStems[i], 0) : i \in 1..Len(IterStems)}

\* C16 (as claimed): for a location whose children were created by any
\* sequence of require_group, require_dataset and write calls, size() is the
\* number of child names and iterating from begin() to end() yields each
\* child name exactly once and nothing else; with the children group1,
\* group2, group3 the names come in that order.
C16_SizeAndIteration ==
    /\ last.op = "size" => last.ret = Cardinality(LinkNames(h5))
    /\ last.op = "for" => YieldsEachChildOnce
    /\ (last.op = "for" /\ LinkNames(h5) = ScenarioGroups) =>
           last.val = <<Name("group1", 0), Name("group2", 0), Name("group3", 0)>>

\* C16 (amended): size() is the number of child names whatever the names are;
\* when every child name is shorter than the iterator's 1024-byte buffer,
\* iterating from begin() to end() yields each child name exactly once and
\* nothing else, and with the children group1, group2, group3 the names come
\* in that order.
C16_IterationOfShortNames ==
    /\ last.op = "size" => last.ret = Cardinality(LinkNames(h5))
    /\ (last.op = "for" /\ \A n \in LinkNames(h5) : NameLen(n) < BufSize) =>
           /\ YieldsEachChildOnce
           /\ LinkNames(h5) = ScenarioGroups =>
                  last.val = <<Name("group1", 0), Name("group2", 0), Name("group3", 0)>>

\* group1, group2 and group3 were created and the loop yielded three names
C16_Witness ==
    /\ last.op = "for"
    /\ LinkNames(h5) = ScenarioGroups
    /\ \A n \in ScenarioGroups : h5.links[n] = "group"
    /\ Len(last.val) = 3

\* C19 (as claimed): dereferencing a location iterator at index idx either
\* returns the complete name of the idx-th child or raises the name-length
\* overflow failure; a name of 1024 bytes or more is never returned cut
\* short, and a lookup that failed never yields what the buffer held before.
C19_CompleteNameOrOverflow ==
    last.op = "operator*" =>
        \/ ~last.ok /\ last.err = "overflow"
        \/ /\ last.ok
           /\ last.arg < Cardinality(LinkNames(h5))
           /\ last.val = SortNames(LinkNames(h5))[last.arg + 1]

\* the live wrappers that hold the native id
Holders(id) == {s \in Slots : w[s].live /\ w[s].id = id}

\* C18 (as claimed): at every point of every sequence of wrapper operations,
\* each native id that an open or create call allocated and that was not
\* released since is held by exactly one live File, Group or Dataset wrapper;
\* move-assigning onto a wrapper that holds an open id, and move-assigning a
\* wrapper to itself, do not drop an unreleased id.
C18_OpenIdHasOneHolder ==
    \A id \in 1..Len(h5.ids) : h5.ids[id].open => Cardinality(Holders(id)) = 1

====
